---- MODULE Spec2Model ----
(***************************************************************************)
(* Content moderation of the UniPick backend: the classifier adapter and   *)
(* status resolver (services/moderation.py), the moderation ledger, and    *)
(* the draft/display shadowing of profiles (api/v1/users/profile.py).      *)
(* Items (api/v1/items/items.py) are created next to them.  Every step of  *)
(* the tables is one database commit of one request.                       *)
(*                                                                         *)
(* Scores are fixed-point hundredths: 0.3 is 30, 0.8 is 80.  Python None   *)
(* and SQL NULL are the value None; a NULL moderation_log_id is NullId.    *)
(***************************************************************************)
EXTENDS Integers, Sequences, FiniteSets, Bags, TLC

VARIABLES
    openai_client,      \* module-level client, None when no API key is set
    moderation_result,  \* the score report handed to determine_status
    status,             \* what determine_status returned for moderation_result
    api_call,           \* outcome of the API call moderation_result came from
    profiles,           \* table profiles: user id -> row
    moderation_logs,    \* table moderation_logs: sequence, id = index
    passes,             \* automated passes between two of their commits
    reviews,            \* approve/reject requests between their two commits
    items,              \* table items: rows created by POST /items, id = index
    served,             \* number of requests admitted so far
    review_queue,       \* the last call of get_pending_review and the rows it returned
    view_history,       \* table view_history: rows in viewed_at order, oldest first
    view_count,         \* items.view_count of the items on sale: item id -> count
    cleanups,           \* record_view requests between their commit and their cleanup
    favorites,          \* table favorites: set of rows
    favorite_ids,       \* the id sequence of table favorites
    toggles,            \* toggle_favorite requests between their SELECT and their commit
    toggled             \* number of toggle_favorite requests admitted so far

shopVars == <<view_history, view_count, cleanups, favorites, favorite_ids, toggles, toggled>>

vars == <<openai_client, moderation_result, status, api_call, profiles, moderation_logs,
          passes, reviews, items, served, review_queue, shopVars>>

pureVars == <<moderation_result, status, api_call>>
dbTables == <<profiles, moderation_logs, passes, reviews, items, served, review_queue>>
dbVars == <<dbTables, shopVars>>

----------------------------------------------------------------------------
(* Values *)

None == "<None>"
Client == "AsyncOpenAI"
NullId == 0
NotResolved == "<not resolved>"

\* Python truthiness of an optional string
Truthy(x) == x # None /\ x # ""

\* x or y
PyOr(x, y) == IF Truthy(x) THEN x ELSE y

RejectThreshold == 80
FlagThreshold == 30
FailScore == 50
DefaultMaxScore == 0

Scores == {0, 10, 30, 31, 50, 80, 81, 95, 100}
Errors == {None, "", "OpenAI client not configured", "Request timed out."}
Keys == {"flagged", "max_score", "error"}

NoCategories == [c \in {} |-> TRUE]
NoScores == [c \in {} |-> 0]

\* dict.get(key, default) on a score report
Get(d, key, default) == IF key \in d.present THEN d[key] ELSE default

----------------------------------------------------------------------------
(* Classifier adapter and status resolver *)

\* What one call of openai_client.moderations.create does: it returns a
\* result or raises an exception whose str() is msg.
Categories == {"hate", "violence"}
ApiResults ==
    [kind : {"result"}, flagged : BOOLEAN, msg : {None},
     categories : [Categories -> BOOLEAN],
     scores : [Categories -> {10, 31, 81}]]
ApiRaises ==
    [kind : {"raise"}, flagged : {FALSE}, msg : {"", "Request timed out."},
     categories : {NoCategories}, scores : {NoScores}]
ApiOutcomes == ApiResults \cup ApiRaises
NoCall ==
    [kind |-> "none", flagged |-> FALSE, msg |-> None,
     categories |-> NoCategories, scores |-> NoScores]

RECURSIVE MaxOver(_, _, _)
\* max_score = max(max_score, score) over the category scores
MaxOver(scores, cats, acc) ==
    IF cats = {} THEN acc
    ELSE LET c == CHOOSE x \in cats : TRUE
             m == IF scores[c] > acc THEN scores[c] ELSE acc
         IN MaxOver(scores, cats \ {c}, m)

moderate_text(client, api) ==
    IF client = None
    THEN [present |-> Keys, flagged |-> TRUE,
          categories |-> [c \in {"no_api"} |-> TRUE],
          scores |-> [c \in {"no_api"} |-> FailScore],
          max_score |-> FailScore,
          error |-> "OpenAI client not configured"]
    ELSE IF api.kind = "raise"
    THEN [present |-> Keys, flagged |-> TRUE,
          categories |-> [c \in {"api_error"} |-> TRUE],
          scores |-> [c \in {"api_error"} |-> FailScore],
          max_score |-> FailScore,
          error |-> api.msg]
    ELSE [present |-> Keys, flagged |-> api.flagged,
          categories |-> api.categories,
          scores |-> api.scores,
          max_score |-> MaxOver(api.scores, DOMAIN api.scores, 0),
          error |-> None]

\* determine_status testing the scores before the error field
determine_status_ScoreFirst(result) ==
    LET max_score == Get(result, "max_score", DefaultMaxScore)
        flagged == Get(result, "flagged", FALSE)
    IN IF max_score > RejectThreshold \/ flagged THEN "rejected"
       ELSE IF Truthy(Get(result, "error", None)) THEN "flagged"
       ELSE IF max_score > FlagThreshold THEN "flagged"
       ELSE "approved"

\* determine_status rejecting only when the score is high and the flag is set
determine_status_Both(result) ==
    IF Truthy(Get(result, "error", None)) THEN "flagged"
    ELSE LET max_score == Get(result, "max_score", DefaultMaxScore)
             flagged == Get(result, "flagged", FALSE)
         IN IF max_score > RejectThreshold /\ flagged THEN "rejected"
            ELSE IF max_score > FlagThreshold THEN "flagged"
            ELSE "approved"

\* determine_status with the thresholds themselves in the upper band
determine_status_Inclusive(result) ==
    IF Truthy(Get(result, "error", None)) THEN "flagged"
    ELSE LET max_score == Get(result, "max_score", DefaultMaxScore)
             flagged == Get(result, "flagged", FALSE)
         IN IF max_score >= RejectThreshold \/ flagged THEN "rejected"
            ELSE IF max_score >= FlagThreshold THEN "flagged"
            ELSE "approved"

determine_status(result) ==
    IF Truthy(Get(result, "error", None)) THEN "flagged"
    ELSE LET max_score == Get(result, "max_score", DefaultMaxScore)
             flagged == Get(result, "flagged", FALSE)
         IN IF max_score > RejectThreshold \/ flagged THEN "rejected"
            ELSE IF max_score > FlagThreshold THEN "flagged"
            ELSE "approved"

\* Score reports as a caller may build them: any subset of the keys, an
\* absent key holding the default dict.get returns for it.
Reports ==
    { r \in [present : SUBSET Keys, flagged : BOOLEAN, categories : {NoCategories},
             scores : {NoScores}, max_score : Scores, error : Errors] :
        /\ "flagged" \notin r.present => r.flagged = FALSE
        /\ "max_score" \notin r.present => r.max_score = DefaultMaxScore
        /\ "error" \notin r.present => r.error = None }

----------------------------------------------------------------------------
(* Tables *)

\* Profiles: u1 edits its profile; u2 is a second profile, as signed up.
Users == {"u1", "u2"}
Editors == {"u1"}
Admin == "admin"


\* _cleanup_view_history keeps the 50 newest rows of a user
HistoryLimit == 50
\* the items on sale before the first request: one more than a history holds
MaxItems == HistoryLimit + 1
OnSale == 1..MaxItems

NewProfile ==
    [username |-> None, full_name |-> None, bio |-> None, phone |-> None,
     display_username |-> None, display_full_name |-> None, display_bio |-> None,
     moderation_status |-> "pending", moderation_log_id |-> NullId]

SignedUpProfile ==
    [NewProfile EXCEPT !.username = "bob", !.full_name = "Bob B", !.bio = "yo"]

\* no call of get_pending_review yet
NoQueue ==
    [call |-> [status |-> None, limit |-> 0, offset |-> 0, content_type |-> None,
               failing |-> {}],
     rows |-> <<>>]

InitTables ==
    /\ profiles = [u \in Users |-> IF u \in Editors THEN NewProfile ELSE SignedUpProfile]
    /\ moderation_logs = <<>>
    /\ passes = EmptyBag
    /\ reviews = EmptyBag
    /\ items = <<>>
    /\ served = 0
    /\ review_queue = NoQueue
    /\ view_history = <<>>
    /\ view_count = [i \in OnSale |-> 0]
    /\ cleanups = EmptyBag
    /\ favorites = {}
    /\ favorite_ids = 0
    /\ toggles = EmptyBag
    /\ toggled = 0

----------------------------------------------------------------------------
(* Requests *)

\* Requests admitted in one run of the model
MaxRequests == 3

Admit ==
    /\ served < MaxRequests
    /\ served' = served + 1

\* PUT /me bodies: a field left out of the body is None.  campus, university,
\* notification_email and show_phone are handled exactly as phone is.
Body(username, full_name, bio, phone) ==
    [username |-> username, full_name |-> full_name, bio |-> bio, phone |-> phone]

EmptyBody == Body(None, None, None, None)

UpdateInputs ==
    {EmptyBody,
     Body("neo", "Ann Lee", "hello", None),
     Body(None, None, "spam", None),
     Body(None, None, None, "555")}

\* Outcomes of the API call during the automated passes of the tables: the
\* call raises, or returns a clean or a violating result.
PassOutcomes ==
    { api \in ApiOutcomes :
        \/ api.kind = "raise"
        \/ /\ api.categories = [c \in Categories |-> api.flagged]
           /\ api.scores \in {[c \in Categories |-> 10],
                              [c \in Categories |-> 81]}
           /\ api.flagged = (api.scores["hate"] > FailScore) }

\* ?note= of reject_profile: left out
Notes == {None}
\* log ids a reviewer may name: those of the ledger and the next, unused one
LogIds == 1..(Len(moderation_logs) + 1)
Decisions == {"approved", "rejected"}

\* f"{x}" of an optional string
Str(x) == IF x = None THEN "None" ELSE x

BagAdd(b, e) == b (+) SetToBag({e})
BagRemove(b, e) == b (-) SetToBag({e})

----------------------------------------------------------------------------
(* services/moderation.py on the tables *)

\* INSERT INTO moderation_logs ... RETURNING id
InsertLog(logs, content_type, content_id, user_id, content_text, st, result) ==
    Append(logs,
           [content_type |-> content_type, content_id |-> content_id,
            user_id |-> user_id, content_text |-> content_text,
            status |-> st, flagged |-> Get(result, "flagged", FALSE),
            categories |-> result.categories, scores |-> result.scores,
            reviewed_by |-> None, reviewed_at |-> FALSE, review_note |-> None])

\* update_content_moderation_status keeping the newer of the two log ids
update_content_moderation_status_Merge(profs, content_type, content_id, st, log_id) ==
    IF content_type = "profile"
    THEN [u \in DOMAIN profs |->
            IF u = content_id
            THEN [profs[u] EXCEPT !.moderation_status = st,
                                  !.moderation_log_id = IF @ > log_id THEN @ ELSE log_id]
            ELSE profs[u]]
    ELSE profs

update_content_moderation_status(profs, content_type, content_id, st, log_id) ==
    IF content_type = "profile"
    THEN [u \in DOMAIN profs |->
            IF u = content_id
            THEN [profs[u] EXCEPT !.moderation_status = st,
                                  !.moderation_log_id = log_id]
            ELSE profs[u]]
    ELSE profs

\* manual_review recording the decision as a new entry
manual_review_logs_Append(logs, log_id, reviewer_id, decision, note) ==
    IF log_id \in 1..Len(logs)
    THEN Append(logs, [logs[log_id] EXCEPT !.status = decision,
                                          !.reviewed_by = reviewer_id,
                                          !.reviewed_at = TRUE,
                                          !.review_note = note])
    ELSE logs

\* The ledger after manual_review: UPDATE moderation_logs ... WHERE id = :log_id
manual_review_logs(logs, log_id, reviewer_id, decision, note) ==
    [i \in 1..Len(logs) |->
        IF i = log_id
        THEN [logs[i] EXCEPT !.status = decision, !.reviewed_by = reviewer_id,
                             !.reviewed_at = TRUE, !.review_note = note]
        ELSE logs[i]]

\* The content table after manual_review: the row of the entry, when there is one
manual_review_content(profs, logs, log_id, decision) ==
    IF log_id \in 1..Len(logs)
    THEN update_content_moderation_status(
             profs, logs[log_id].content_type, logs[log_id].content_id,
             decision, log_id)
    ELSE profs

----------------------------------------------------------------------------
(* api/v1/users/profile.py *)

\* get_profile_with_display: the response for a row
get_profile_with_display(profile, is_owner) ==
    LET is_pending == profile.moderation_status \in {"pending", "flagged"}
    IN IF is_owner \/ ~is_pending
       THEN [username |-> profile.username, full_name |-> profile.full_name,
             bio |-> profile.bio, phone |-> profile.phone,
             moderation_status |-> profile.moderation_status,
             moderation_log_id |-> profile.moderation_log_id]
       ELSE [username |-> PyOr(profile.display_username, profile.username),
             full_name |-> PyOr(profile.display_full_name, profile.full_name),
             bio |-> PyOr(profile.display_bio, profile.bio),
             phone |-> profile.phone,
             moderation_status |-> "approved",
             moderation_log_id |-> NullId]

\* GET /me
get_my_profile(user_id) == get_profile_with_display(profiles[user_id], TRUE)

\* GET /{user_id}/public; current_user_id is None for an anonymous caller
get_public_profile(user_id, current_user_id) ==
    get_profile_with_display(
        profiles[user_id],
        IF current_user_id # None THEN current_user_id = user_id ELSE FALSE)

needs_review(upd) ==
    upd.username # None \/ upd.full_name # None \/ upd.bio # None

\* UpdatedRow writing a new bio to display_bio as well
UpdatedRow_WritesShadow(row, upd) ==
    LET set == [row EXCEPT
                  !.username = IF upd.username # None THEN upd.username ELSE @,
                  !.full_name = IF upd.full_name # None THEN upd.full_name ELSE @,
                  !.bio = IF upd.bio # None THEN upd.bio ELSE @,
                  !.display_bio = IF upd.bio # None THEN upd.bio ELSE @,
                  !.phone = IF upd.phone # None THEN upd.phone ELSE @]
    IN IF upd.username # None \/ upd.full_name # None \/ upd.bio # None
       THEN [set EXCEPT !.moderation_status = "pending",
                        !.moderation_log_id = NullId]
       ELSE set

\* UPDATE profiles SET ... WHERE id = :user_id RETURNING *
UpdatedRow(row, upd) ==
    LET set == [row EXCEPT
                  !.username = IF upd.username # None THEN upd.username ELSE @,
                  !.full_name = IF upd.full_name # None THEN upd.full_name ELSE @,
                  !.bio = IF upd.bio # None THEN upd.bio ELSE @,
                  !.phone = IF upd.phone # None THEN upd.phone ELSE @]
    IN IF needs_review(upd)
       THEN [set EXCEPT !.moderation_status = "pending",
                        !.moderation_log_id = NullId]
       ELSE set

\* moderate_profile: content_text = f"{full_name}\n{bio}\n{username}"
ProfileText(row) == <<Str(row.full_name), Str(row.bio), Str(row.username)>>

\* update_my_profile up to its first commit; a sensitive update goes on to
\* moderate_profile with the row the UPDATE returned.  before is the row as the
\* UPDATE found it, what a rollback of the request would restore.
update_my_profile(u, upd) ==
    /\ upd # EmptyBody
    /\ Admit
    /\ LET updated == UpdatedRow(profiles[u], upd)
       IN /\ profiles' = [profiles EXCEPT ![u] = updated]
          /\ passes' = IF needs_review(upd)
                       THEN BagAdd(passes,
                                   [stage |-> "moderate_content", user_id |-> u,
                                    content_text |-> ProfileText(updated),
                                    status |-> None, log_id |-> NullId,
                                    before |-> profiles[u]])
                       ELSE passes
    /\ UNCHANGED <<openai_client, pureVars, review_queue, shopVars, items, moderation_logs, reviews>>

\* moderate_profile, first commit: moderate_content classifies the text,
\* resolves the status and inserts the ledger entry.
moderate_content(p, api) ==
    /\ BagIn(p, passes) /\ p.stage = "moderate_content"
    /\ LET result == moderate_text(openai_client, api)
           st == determine_status(result)
       IN /\ moderation_logs' = InsertLog(moderation_logs, "profile", p.user_id,
                                          p.user_id, p.content_text, st, result)
          /\ passes' = BagAdd(BagRemove(passes, p),
                              [p EXCEPT !.stage = "update_status", !.status = st,
                                        !.log_id = Len(moderation_logs) + 1])
    /\ UNCHANGED <<openai_client, pureVars, review_queue, shopVars, items, profiles, reviews, served>>

\* moderate_profile, second commit: update_content_moderation_status
moderate_profile_update(p) ==
    /\ BagIn(p, passes) /\ p.stage = "update_status"
    /\ profiles' = update_content_moderation_status(
                       profiles, "profile", p.user_id, p.status, p.log_id)
    /\ passes' = BagRemove(passes, p)
    /\ UNCHANGED <<openai_client, pureVars, review_queue, shopVars, items, moderation_logs, reviews, served>>

\* moderate_profile raises at its next statement (the INSERT or the UPDATE):
\* update_my_profile logs the exception and answers as usual; what the pass
\* committed before stays.
moderate_profile_fails(p) ==
    /\ BagIn(p, passes)
    /\ passes' = BagRemove(passes, p)
    /\ UNCHANGED <<openai_client, pureVars, review_queue, shopVars, items, profiles, moderation_logs, reviews, served>>

\* SET username = display_username, full_name = display_full_name,
\*     bio = display_bio, moderation_status = st, moderation_log_id = log_id
RevertedRow(row, st, log_id) ==
    [row EXCEPT !.username = row.display_username,
                !.full_name = row.display_full_name,
                !.bio = row.display_bio,
                !.moderation_status = st,
                !.moderation_log_id = log_id]

\* SET display_username = username, display_full_name = full_name,
\*     display_bio = bio, moderation_status = 'approved', moderation_log_id = log_id
PublishedRow(row, log_id) ==
    [row EXCEPT !.display_username = row.username,
                !.display_full_name = row.full_name,
                !.display_bio = row.bio,
                !.moderation_status = "approved",
                !.moderation_log_id = log_id]

\* revert_profile_changes putting the reverted profile under review again
revert_profile_changes_Pending(u) ==
    /\ Admit
    /\ profiles' = [profiles EXCEPT ![u] = RevertedRow(@, "pending", NullId)]
    /\ UNCHANGED <<openai_client, pureVars, review_queue, shopVars, items, moderation_logs, passes, reviews>>

revert_profile_changes(u) ==
    /\ Admit
    /\ profiles' = [profiles EXCEPT ![u] = RevertedRow(@, "approved", NullId)]
    /\ UNCHANGED <<openai_client, pureVars, review_queue, shopVars, items, moderation_logs, passes, reviews>>

\* approve_profile / reject_profile up to the commit inside manual_review
ReviewBegin(kind, user_id, log_id, note) ==
    /\ Admit
    /\ moderation_logs' = manual_review_logs(moderation_logs, log_id, Admin, kind, note)
    /\ profiles' = manual_review_content(profiles, moderation_logs, log_id, kind)
    /\ reviews' = BagAdd(reviews, [kind |-> kind, user_id |-> user_id, log_id |-> log_id])
    /\ UNCHANGED <<openai_client, pureVars, review_queue, shopVars, items, passes>>

approve_profile(user_id, log_id) ==
    ReviewBegin("approved", user_id, log_id, "profile approved")

reject_profile(user_id, log_id, note) ==
    ReviewBegin("rejected", user_id, log_id, PyOr(note, "profile rejected"))

\* approve_profile, second commit: the draft fields go to the display_ fields
approve_profile_copy(r) ==
    /\ BagIn(r, reviews) /\ r.kind = "approved"
    /\ profiles' = [profiles EXCEPT ![r.user_id] = PublishedRow(@, r.log_id)]
    /\ reviews' = BagRemove(reviews, r)
    /\ UNCHANGED <<openai_client, pureVars, review_queue, shopVars, items, moderation_logs, passes, served>>

\* reject_profile, second commit: the display_ fields go back to the draft fields
reject_profile_revert(r) ==
    /\ BagIn(r, reviews) /\ r.kind = "rejected"
    /\ profiles' = [profiles EXCEPT ![r.user_id] = RevertedRow(@, "rejected", r.log_id)]
    /\ reviews' = BagRemove(reviews, r)
    /\ UNCHANGED <<openai_client, pureVars, review_queue, shopVars, items, moderation_logs, passes, served>>

\* approve_profile / reject_profile: the second UPDATE raises, the handler
\* rolls it back and answers 500; the commit inside manual_review stays.
review_fails(r) ==
    /\ BagIn(r, reviews)
    /\ reviews' = BagRemove(reviews, r)
    /\ UNCHANGED <<openai_client, pureVars, review_queue, shopVars, items, profiles, moderation_logs, passes, served>>

----------------------------------------------------------------------------
(* api/v1/items/items.py *)

\* POST /items bodies: title and description
ItemInputs == {[title |-> "bike", description |-> None]}

\* create_item: db.add(new_item), commit.  The row takes the column defaults
\* of the table for moderation_status and moderation_log_id.
create_item(user_id, item_in) ==
    /\ Admit
    /\ items' = Append(items,
                       [user_id |-> user_id, title |-> item_in.title,
                        description |-> item_in.description,
                        moderation_status |-> "pending",
                        moderation_log_id |-> NullId])
    /\ UNCHANGED <<openai_client, pureVars, review_queue, shopVars, profiles, moderation_logs, passes, reviews>>

----------------------------------------------------------------------------
(* ModerationService called directly, with any arguments *)

ValidTables == {"item", "profile"}
ContentTypes == {"item", "profile", "comment"}
AnyDecisions == {"approved", "rejected", "maybe"}
\* content ids, as strings: a profile id, an item id, anything else
ContentIds == {"u1", "1", "c1"}

\* int(content_id): 0 stands for the ValueError of a string that is no number
int(content_id) ==
    CASE content_id = "1" -> 1
      [] content_id = "2" -> 2
      [] content_id = "3" -> 3
      [] OTHER -> 0

\* update_content_moderation_status raises: content_type is not in
\* VALID_TABLES, or the id of an item is no number
UpdateRaises(content_type, content_id) ==
    \/ content_type \notin ValidTables
    \/ content_type = "item" /\ int(content_id) = 0

\* UPDATE items SET moderation_status = :status, moderation_log_id = :log_id
\* WHERE id = :content_id
update_item_moderation_status(its, content_type, content_id, st, log_id) ==
    IF content_type = "item"
    THEN [i \in 1..Len(its) |->
            IF i = int(content_id)
            THEN [its[i] EXCEPT !.moderation_status = st,
                                !.moderation_log_id = log_id]
            ELSE its[i]]
    ELSE its

\* ModerationService.moderate_content: classify, resolve, INSERT, commit
ModerationService_moderate_content(content_type, content_id, user_id, api) ==
    /\ Admit
    /\ LET result == moderate_text(openai_client, api)
       IN moderation_logs' = InsertLog(moderation_logs, content_type, content_id,
                                       user_id, <<"text">>, determine_status(result),
                                       result)
    /\ UNCHANGED <<openai_client, pureVars, review_queue, shopVars, items, profiles, passes, reviews>>

\* ModerationService.update_content_moderation_status: ValueError before any
\* statement, or the UPDATE of the table of content_type and commit
ModerationService_update_content_moderation_status(content_type, content_id, st, log_id) ==
    /\ Admit
    /\ IF UpdateRaises(content_type, content_id)
       THEN UNCHANGED <<profiles, items>>
       ELSE /\ profiles' = update_content_moderation_status(
                              profiles, content_type, content_id, st, log_id)
            /\ items' = update_item_moderation_status(
                            items, content_type, content_id, st, log_id)
    /\ UNCHANGED <<openai_client, pureVars, review_queue, shopVars, moderation_logs, passes, reviews>>

\* ModerationService.manual_review: UPDATE of the entry, then the content
\* update of the entry's row, then commit.  When the content update raises,
\* nothing of the call is committed.
ModerationService_manual_review(log_id, reviewer_id, decision, note) ==
    /\ Admit
    /\ IF /\ log_id \in 1..Len(moderation_logs)
          /\ UpdateRaises(moderation_logs[log_id].content_type,
                          moderation_logs[log_id].content_id)
       THEN UNCHANGED <<moderation_logs, profiles, items>>
       ELSE /\ moderation_logs' = manual_review_logs(
                                      moderation_logs, log_id, reviewer_id, decision, note)
            /\ profiles' = manual_review_content(profiles, moderation_logs, log_id, decision)
            /\ items' =
                  IF log_id \in 1..Len(moderation_logs)
                  THEN update_item_moderation_status(
                           items, moderation_logs[log_id].content_type,
                           moderation_logs[log_id].content_id, decision, log_id)
                  ELSE items
    /\ UNCHANGED <<openai_client, pureVars, review_queue, shopVars, passes, reviews>>

\* a key the dict of an entry does not have; the empty list
Missing == "<missing>"
EmptyList == "[]"

QueueDefaults ==
    [item_images |-> Missing, item_title |-> Missing, item_description |-> Missing,
     profile_avatar |-> Missing, profile_full_name |-> Missing,
     profile_username |-> Missing, profile_bio |-> Missing]

\* dict(row) of entry i, before the loop over the entries
QueueRow(logs, i) ==
    [id |-> i, status |-> logs[i].status, content_type |-> logs[i].content_type,
     content_id |-> logs[i].content_id, user_id |-> logs[i].user_id] @@ QueueDefaults

\* the body of the loop for one entry: the lookup of its item or profile; the
\* except branch when the lookup raises (raises is what the database does,
\* int(content_id) raises by itself)
Enrich(row, profs, its, raises) ==
    IF row.content_type = "item"
    THEN IF raises \/ int(row.content_id) = 0
         THEN [row EXCEPT !.item_images = EmptyList]
         ELSE IF int(row.content_id) \in 1..Len(its)
              THEN [row EXCEPT !.item_images = EmptyList,
                               !.item_title = its[int(row.content_id)].title,
                               !.item_description = its[int(row.content_id)].description]
              ELSE row
    ELSE IF row.content_type = "profile"
    THEN IF raises
         THEN [row EXCEPT !.profile_avatar = None]
         ELSE IF row.user_id \in DOMAIN profs
              THEN [row EXCEPT !.profile_avatar = None,
                               !.profile_full_name = profs[row.user_id].full_name,
                               !.profile_username = profs[row.user_id].username,
                               !.profile_bio = profs[row.user_id].bio]
              ELSE row
    ELSE row

\* the SELECT: WHERE m.status = :status [AND m.content_type = :content_type]
\* ORDER BY m.created_at DESC LIMIT :limit OFFSET :offset, as entry ids
PendingRows(logs, st, limit, offset, content_type) ==
    LET RECURSIVE Desc(_)
        Desc(n) ==
            IF n = 0 THEN <<>>
            ELSE IF /\ logs[n].status = st
                    /\ Truthy(content_type) => logs[n].content_type = content_type
                 THEN <<n>> \o Desc(n - 1)
                 ELSE Desc(n - 1)
        all == Desc(Len(logs))
        last == IF offset + limit < Len(all) THEN offset + limit ELSE Len(all)
    IN SubSeq(all, offset + 1, last)

\* get_pending_review without the try/except of its loop: one lookup that
\* raises ends the call
get_pending_review_Abort(logs, profs, its, st, limit, offset, content_type, failing) ==
    LET rows == PendingRows(logs, st, limit, offset, content_type)
    IN IF \E k \in 1..Len(rows) : rows[k] \in failing
       THEN <<>>
       ELSE [k \in 1..Len(rows) |-> Enrich(QueueRow(logs, rows[k]), profs, its, FALSE)]

\* ModerationService.get_pending_review; failing is the set of entries whose
\* lookup raises
get_pending_review(logs, profs, its, st, limit, offset, content_type, failing) ==
    LET rows == PendingRows(logs, st, limit, offset, content_type)
    IN [k \in 1..Len(rows) |->
           Enrich(QueueRow(logs, rows[k]), profs, its, rows[k] \in failing)]

QueueStatuses == {"flagged", "approved"}
QueueLimits == {1, 2, 50}
QueueOffsets == {0, 1}
QueueTypes == {None, "item", "profile"}

ModerationService_get_pending_review(st, limit, offset, content_type, failing) ==
    /\ Admit
    /\ review_queue' =
          [call |-> [status |-> st, limit |-> limit, offset |-> offset,
                     content_type |-> content_type, failing |-> failing],
           rows |-> get_pending_review(moderation_logs, profiles, items, st, limit,
                                       offset, content_type, failing)]
    /\ UNCHANGED <<openai_client, pureVars, shopVars, profiles, moderation_logs, passes,
                   reviews, items>>

----------------------------------------------------------------------------
(* api/v1/moderation.py *)

\* POST /admin/review: any authenticated caller, decision checked first
manual_review(caller, log_id, decision, note) ==
    /\ decision \in {"approved", "rejected"}
    /\ ModerationService_manual_review(log_id, caller, decision, note)

----------------------------------------------------------------------------
(* api/v1/items/favorites.py *)

MaxCleanups == 2
MaxToggles == 4

ViewRow(user_id, item_id) == [user_id |-> user_id, item_id |-> item_id]

HasViewed(user_id, item_id) ==
    \E k \in 1..Len(view_history) : view_history[k] = ViewRow(user_id, item_id)

\* UPDATE view_history SET viewed_at = utcnow(): the row becomes the newest
Touched(h, row) == SelectSeq(h, LAMBDA r : r # row) \o <<row>>

\* DELETE FROM view_history WHERE rn > 50, rn the rank of a row among the rows
\* of user_id by viewed_at DESC
Cleaned(h, user_id) ==
    LET newer(k) == Cardinality({j \in (k + 1)..Len(h) : h[j].user_id = user_id})
        kept == {h[k] : k \in {j \in 1..Len(h) :
                                  h[j].user_id # user_id \/ newer(j) < HistoryLimit}}
    IN SelectSeq(h, LAMBDA r : r \in kept)

\* POST /{item_id}/view up to its commit: the INSERT and the increment of the
\* first view, the UPDATE of viewed_at after an IntegrityError, or the
\* increment of a caller who is not logged in
record_view(user_id, item_id) ==
    /\ item_id \in DOMAIN view_count
    /\ IF Truthy(user_id)
       THEN IF ~HasViewed(user_id, item_id)
            THEN /\ BagCardinality(cleanups) < MaxCleanups
                 /\ view_history' = Append(view_history, ViewRow(user_id, item_id))
                 /\ view_count' = [view_count EXCEPT ![item_id] = @ + 1]
                 /\ cleanups' = BagAdd(cleanups, user_id)
            ELSE /\ view_history' = Touched(view_history, ViewRow(user_id, item_id))
                 /\ UNCHANGED <<view_count, cleanups>>
       ELSE /\ view_count' = [view_count EXCEPT ![item_id] = @ + 1]
            /\ UNCHANGED <<view_history, cleanups>>
    /\ UNCHANGED <<openai_client, pureVars, dbTables, favorites, favorite_ids, toggles,
                   toggled>>

\* _cleanup_view_history, called by record_view after the commit of a first view
cleanup_view_history(user_id) ==
    /\ BagIn(user_id, cleanups)
    /\ cleanups' = BagRemove(cleanups, user_id)
    /\ view_history' = Cleaned(view_history, user_id)
    /\ UNCHANGED <<openai_client, pureVars, dbTables, view_count, favorites, favorite_ids,
                   toggles, toggled>>

FavoriteOf(user_id, item_id) ==
    {r \in favorites : r.user_id = user_id /\ r.item_id = item_id}

\* POST /{item_id}/favorite up to its SELECT: existing is the id of the row
\* read, NullId when there is none
toggle_favorite(user_id, item_id) ==
    /\ toggled < MaxToggles
    /\ toggled' = toggled + 1
    /\ Truthy(user_id)
    /\ item_id \in DOMAIN view_count
    /\ toggles' = BagAdd(toggles,
                         [user_id |-> user_id, item_id |-> item_id,
                          existing |-> IF FavoriteOf(user_id, item_id) = {}
                                       THEN NullId
                                       ELSE (CHOOSE r \in FavoriteOf(user_id, item_id) :
                                                TRUE).id])
    /\ UNCHANGED <<openai_client, pureVars, dbTables, view_history, view_count, cleanups,
                   favorites, favorite_ids>>

\* the is_favorited of the response
is_favorited(t) == t.existing = NullId

\* the rest of the request: db.delete(existing) and commit, deleting no row
\* when the row is gone; or the INSERT and commit, rolled back on the
\* IntegrityError of the unique constraint
toggle_favorite_commit(t) ==
    /\ BagIn(t, toggles)
    /\ toggles' = BagRemove(toggles, t)
    /\ IF t.existing # NullId
       THEN /\ favorites' = {r \in favorites : r.id # t.existing}
            /\ UNCHANGED favorite_ids
       ELSE /\ favorite_ids' = favorite_ids + 1
            /\ favorites' =
                  IF FavoriteOf(t.user_id, t.item_id) = {}
                  THEN favorites \cup {[id |-> favorite_ids + 1, user_id |-> t.user_id,
                                        item_id |-> t.item_id]}
                  ELSE favorites
    /\ UNCHANGED <<openai_client, pureVars, dbTables, view_history, view_count, cleanups,
                   toggled>>

----------------------------------------------------------------------------
(* The moderation workflow *)

NoReport ==
    [present |-> {}, flagged |-> FALSE, categories |-> NoCategories,
     scores |-> NoScores, max_score |-> DefaultMaxScore, error |-> None]

Init ==
    /\ openai_client \in {None, Client}
    /\ moderation_result = NoReport
    /\ status = NotResolved
    /\ api_call = NoCall
    /\ InitTables

Next ==
    \/ \E u \in Editors, upd \in UpdateInputs : update_my_profile(u, upd)
    \/ \E p \in BagToSet(passes), api \in PassOutcomes : moderate_content(p, api)
    \/ \E p \in BagToSet(passes) : moderate_profile_update(p)
    \/ \E p \in BagToSet(passes) : moderate_profile_fails(p)
    \/ \E u \in Editors : revert_profile_changes(u)
    \/ \E u \in Users, log_id \in LogIds : approve_profile(u, log_id)
    \/ \E u \in Users, log_id \in LogIds, note \in Notes : reject_profile(u, log_id, note)
    \/ \E r \in BagToSet(reviews) : approve_profile_copy(r)
    \/ \E r \in BagToSet(reviews) : reject_profile_revert(r)
    \/ \E r \in BagToSet(reviews) : review_fails(r)
    \/ \E u \in Editors, item_in \in ItemInputs : create_item(u, item_in)
    \/ \E caller \in Editors \cup {Admin}, log_id \in LogIds, decision \in Decisions :
          manual_review(caller, log_id, decision, None)

Spec == Init /\ [][Next]_vars

\* The automated passes on their own: profile updates and the passes they
\* start, running concurrently.
NextPasses ==
    \/ \E u \in Editors, upd \in {b \in UpdateInputs : needs_review(b)} :
          update_my_profile(u, upd)
    \/ \E p \in BagToSet(passes), api \in {a \in PassOutcomes : a.msg # ""} :
          moderate_content(p, api)
    \/ \E p \in BagToSet(passes) : moderate_profile_update(p)
    \/ \E p \in BagToSet(passes) : moderate_profile_fails(p)

SpecPasses == Init /\ [][NextPasses]_vars

\* The same with the scheduling of the server: a request that can run its
\* next statement eventually does.  Nothing obliges a statement to fail or a
\* client to send a request.
SpecPassesLive ==
    /\ SpecPasses
    /\ WF_vars(\E p \in BagToSet(passes), api \in {a \in PassOutcomes : a.msg # ""} :
                  moderate_content(p, api))
    /\ WF_vars(\E p \in BagToSet(passes) : moderate_profile_update(p))

\* The service on its own: its methods called with arguments of any value,
\* next to POST /items and POST /admin/review.
NextService ==
    \/ \E content_type \in ContentTypes, content_id \in ContentIds,
          api \in {a \in PassOutcomes : a.msg # ""} :
          ModerationService_moderate_content(content_type, content_id, "u1", api)
    \/ \E content_type \in ContentTypes, content_id \in ContentIds,
          st \in {"approved", "flagged"}, log_id \in LogIds :
          ModerationService_update_content_moderation_status(
              content_type, content_id, st, log_id)
    \/ \E log_id \in LogIds, decision \in AnyDecisions :
          ModerationService_manual_review(log_id, Admin, decision, None)
    \/ \E log_id \in LogIds, decision \in AnyDecisions :
          manual_review(Admin, log_id, decision, None)
    \/ \E item_in \in ItemInputs : create_item("u1", item_in)

SpecService == Init /\ [][NextService]_vars

\* The review queue: entries of items and of profiles are recorded, items are
\* created, and the queue is read with any filter and any failing lookups.
NextQueue ==
    \/ \E content_type \in ValidTables, api \in {a \in PassOutcomes : a.msg # ""} :
          ModerationService_moderate_content(
              content_type, IF content_type = "item" THEN "1" ELSE "u1", "u1", api)
    \/ \E item_in \in ItemInputs : create_item("u1", item_in)
    \/ \E st \in QueueStatuses, limit \in QueueLimits, offset \in QueueOffsets,
          content_type \in QueueTypes, failing \in SUBSET (1..Len(moderation_logs)) :
          ModerationService_get_pending_review(st, limit, offset, content_type, failing)

SpecQueue == Init /\ [][NextQueue]_vars

\* One logged-in user looks at the items on sale in the order of their ids and
\* comes back to the first one at any time.
Unseen == {i \in OnSale : view_count[i] = 0}
Browsed ==
    {1} \cup (IF Unseen = {} THEN {}
              ELSE {CHOOSE i \in Unseen : \A j \in Unseen : i <= j})

NextViews ==
    \/ \E item_id \in Browsed : record_view("u1", item_id)
    \/ \E user_id \in BagToSet(cleanups) : cleanup_view_history(user_id)

SpecViews == Init /\ [][NextViews]_vars

\* Favourites of two users for one item, toggled concurrently.
NextFavorites ==
    \/ \E user_id \in Users : toggle_favorite(user_id, 1)
    \/ \E t \in BagToSet(toggles) : toggle_favorite_commit(t)

SpecFavorites == Init /\ [][NextFavorites]_vars

----------------------------------------------------------------------------
(* Claims about the moderation workflow, under Spec *)

Draft(row) == <<row.username, row.full_name, row.bio>>
Shadow(row) == <<row.display_username, row.display_full_name, row.display_bio>>
Shown(response) == <<response.username, response.full_name, response.bio>>

\* Who may call GET /{u}/public without being the owner u
OtherViewers(u) == (Users \cup {Admin, None}) \ {u}

\* No request is between two of its commits
Quiescent == passes = EmptyBag /\ reviews = EmptyBag

\* The ledger entries of profile u
EntriesOf(u) ==
    { i \in 1..Len(moderation_logs) :
        /\ moderation_logs[i].content_type = "profile"
        /\ moderation_logs[i].content_id = u }

\* The entry the row of u points to, when it points to one of the ledger
HasCurrentEntry(u) == profiles[u].moderation_log_id \in 1..Len(moderation_logs)
CurrentEntry(u) == moderation_logs[profiles[u].moderation_log_id]

\* C5: a profile whose moderation_status is approved has its draft fields
\* equal to its display_ (shadow) fields, in every state where no request is
\* between two of its commits.
C5_ApprovedInSync ==
    \A u \in Users :
        (Quiescent /\ profiles[u].moderation_status = "approved") =>
            Draft(profiles[u]) = Shadow(profiles[u])

\* The automated pass of the last sensitive edit of u, a profile approved
\* before, ended flagged or rejected, and no review has run since.
EditAwaitingReview(u) ==
    /\ Quiescent
    /\ HasCurrentEntry(u)
    /\ profiles[u].moderation_log_id \in EntriesOf(u)
    /\ ~CurrentEntry(u).reviewed_at
    /\ CurrentEntry(u).status \in {"flagged", "rejected"}
    /\ profiles[u].moderation_status = CurrentEntry(u).status
    /\ \E j \in EntriesOf(u) :
          /\ j < profiles[u].moderation_log_id
          /\ moderation_logs[j].status = "approved"

\* C6: while the edit of a previously approved profile awaits review, every
\* non-owner read returns the shadow values and the owner's read returns the
\* draft values.
C6_EditHiddenUntilReview ==
    \A u \in Users :
        EditAwaitingReview(u) =>
            /\ \A v \in OtherViewers(u) :
                  Shown(get_public_profile(u, v)) = Shadow(profiles[u])
            /\ Shown(get_my_profile(u)) = Draft(profiles[u])

\* C7: a non-owner read of a profile whose status is pending or flagged
\* returns the shadow fields, empty or not, never a draft value.
C7_PendingShowsShadow ==
    \A u \in Users :
        profiles[u].moderation_status \in {"pending", "flagged"} =>
            \A v \in OtherViewers(u) :
                Shown(get_public_profile(u, v)) = Shadow(profiles[u])

\* C8: a read of a rejected profile reports the status rejected to the owner
\* only; a non-owner read returns the shadow fields and reports neither the
\* status rejected nor the ledger entry id (stated for the states where no
\* request is between two of its commits and the row points to a stored entry).
C8_RejectedOnlyToOwner ==
    \A u \in Users :
        (Quiescent /\ HasCurrentEntry(u) /\ profiles[u].moderation_status = "rejected") =>
            /\ get_my_profile(u).moderation_status = "rejected"
            /\ \A v \in OtherViewers(u) :
                  LET response == get_public_profile(u, v)
                  IN /\ response.moderation_status # "rejected"
                     /\ response.moderation_log_id = NullId
                     /\ Shown(response) = Shadow(profiles[u])

\* The row of u points to an entry of u that a manual review by the admin
\* rejected, and the request that rejected it has ended.
ManuallyRejected(u) ==
    /\ Quiescent
    /\ HasCurrentEntry(u)
    /\ profiles[u].moderation_log_id \in EntriesOf(u)
    /\ CurrentEntry(u).reviewed_at
    /\ CurrentEntry(u).reviewed_by = Admin
    /\ CurrentEntry(u).status = "rejected"

\* C9: after a manual rejection of an entry of a profile, through any of the
\* rejection entry points, the profile is rejected and its draft fields equal
\* its shadow fields.
C9_RejectionReverts ==
    \A u \in Users :
        ManuallyRejected(u) =>
            /\ profiles[u].moderation_status = "rejected"
            /\ Draft(profiles[u]) = Shadow(profiles[u])

\* C10: once a pass has ended for a profile, and no request is under way, its
\* moderation_log_id is the id of the newest ledger entry of that profile.
C10_PointsToNewestEntry ==
    \A u \in Users :
        (Quiescent /\ EntriesOf(u) # {}) =>
            /\ profiles[u].moderation_log_id \in EntriesOf(u)
            /\ \A i \in EntriesOf(u) : i <= profiles[u].moderation_log_id

\* C11: in every state, a non-null moderation_log_id of a content row (a
\* profile or an item) is the id of a ledger entry that is stored.
C11_PointerStored ==
    /\ \A u \in Users :
          profiles[u].moderation_log_id # NullId => HasCurrentEntry(u)
    /\ \A i \in 1..Len(items) :
          items[i].moderation_log_id # NullId =>
              items[i].moderation_log_id \in 1..Len(moderation_logs)

\* C12: an automated pass is atomic: every commit that inserts a ledger entry
\* also sets the moderation_status and moderation_log_id of the content row
\* of that entry, so no committed state holds the entry of a pass without the
\* update of that pass.
C12_PassCommitsTogether ==
    [][Len(moderation_logs') > Len(moderation_logs) =>
          LET log_id == Len(moderation_logs')
              entry == moderation_logs'[log_id]
          IN entry.content_type = "profile" =>
                /\ profiles'[entry.content_id].moderation_log_id = log_id
                /\ profiles'[entry.content_id].moderation_status = entry.status]_vars

\* The row of u holds the status and the id of one and the same stored entry
\* of u.
OfOneEntry(u) ==
    profiles[u].moderation_log_id # NullId =>
        /\ profiles[u].moderation_log_id \in EntriesOf(u)
        /\ CurrentEntry(u).status = profiles[u].moderation_status

\* C13: when automated passes for one profile run concurrently, every content
\* update of a pass leaves the row with the status and the log id of that
\* pass, so the row always holds the status and the id of one stored entry
\* (the one of the pass whose update committed last), never a mix.
C13_LastUpdateWins ==
    /\ [](\A u \in Users : OfOneEntry(u))
    /\ [][\A p \in BagToSet(passes) :
             moderate_profile_update(p) =>
                /\ profiles'[p.user_id].moderation_status = p.status
                /\ profiles'[p.user_id].moderation_log_id = p.log_id
                /\ p.log_id \in EntriesOf(p.user_id)
                /\ moderation_logs[p.log_id].status = p.status]_vars

\* Two passes of u1 overlapped and ended with different outcomes; the update
\* of the older one committed last.
C13_Witness ==
    /\ passes = EmptyBag
    /\ \E i, j \in EntriesOf("u1") :
          /\ i < j
          /\ moderation_logs[i].status # moderation_logs[j].status
          /\ profiles["u1"].moderation_log_id = i
          /\ profiles["u1"].moderation_status = moderation_logs[i].status

\* C14: a profile update resets moderation_status to pending and starts an
\* automated pass exactly when the value of username, full_name or bio
\* changed; an update that changes none of them leaves moderation_status,
\* moderation_log_id and the ledger as they were and starts no pass.
C14_ReviewIffChanged ==
    [][\A u \in Editors, upd \in UpdateInputs :
          update_my_profile(u, upd) =>
             IF Draft(profiles'[u]) # Draft(profiles[u])
             THEN /\ profiles'[u].moderation_status = "pending"
                  /\ passes' # passes
             ELSE /\ profiles'[u].moderation_status = profiles[u].moderation_status
                  /\ profiles'[u].moderation_log_id = profiles[u].moderation_log_id
                  /\ moderation_logs' = moderation_logs
                  /\ passes' = passes]_vars

\* C15: only an admin changes a ledger entry by a manual review: every entry
\* that was reviewed was reviewed by the admin.
C15_OnlyAdminReviews ==
    \A i \in 1..Len(moderation_logs) :
        moderation_logs[i].reviewed_at => moderation_logs[i].reviewed_by = Admin

\* C16: an approve or reject of a profile that names a ledger entry id that is
\* not stored changes no content row (and no ledger entry): the commit that
\* ends such a request leaves the table profiles as it was.
C16_UnknownEntryChangesNothing ==
    [][\A r \in BagToSet(reviews) :
          (/\ r.log_id > Len(moderation_logs)
           /\ approve_profile_copy(r) \/ reject_profile_revert(r)) =>
              /\ profiles' = profiles
              /\ moderation_logs' = moderation_logs]_vars

\* C17: every created item went through an automated pass: its
\* moderation_log_id is the id of a stored ledger entry of that item and its
\* moderation_status is the status of that entry.
C17_ItemModeratedOnCreate ==
    \A i \in 1..Len(items) :
        /\ items[i].moderation_log_id \in 1..Len(moderation_logs)
        /\ moderation_logs[items[i].moderation_log_id].content_type = "item"
        /\ moderation_logs[items[i].moderation_log_id].content_id = i
        /\ moderation_logs[items[i].moderation_log_id].status = items[i].moderation_status

\* The admin approved entry log_id by a manual review, that request has ended
\* and the row of the entry's profile is as the review left it.
ApprovedOnce(log_id) ==
    /\ Quiescent
    /\ log_id \in 1..Len(moderation_logs)
    /\ moderation_logs[log_id].reviewed_at
    /\ moderation_logs[log_id].reviewed_by = Admin
    /\ moderation_logs[log_id].status = "approved"
    /\ profiles[moderation_logs[log_id].content_id].moderation_status = "approved"
    /\ profiles[moderation_logs[log_id].content_id].moderation_log_id = log_id

\* C18: manual approval is idempotent: a second manual review with decision
\* approved of an entry the admin already approved leaves the profile
\* approved, its shadow fields equal to its draft fields, and the tables as
\* they were after the first one.
C18_ApprovalIdempotent ==
    [][\A log_id \in LogIds :
          (ApprovedOnce(log_id) /\ manual_review(Admin, log_id, "approved", None)) =>
             LET u == moderation_logs[log_id].content_id
             IN /\ profiles'[u].moderation_status = "approved"
                /\ Shadow(profiles'[u]) = Draft(profiles'[u])
                /\ profiles' = profiles]_vars

\* C19: in every state, a row whose moderation_log_id is the id of a stored
\* entry has the moderation_status stored in that entry.
C19_StatusOfCurrentEntry ==
    \A u \in Users :
        HasCurrentEntry(u) =>
            profiles[u].moderation_status = CurrentEntry(u).status

\* C20: a manual review is one transaction: the commit of approve_profile or
\* reject_profile that changes the ledger entry and the status of the entry's
\* profile also applies the copy of that review, draft to shadow for an
\* approval and shadow to draft for a rejection.
C20_ReviewOneTransaction ==
    [][\A u \in Users, log_id \in LogIds :
          log_id \in EntriesOf(u) =>
             /\ approve_profile(u, log_id) =>
                   Shadow(profiles'[u]) = Draft(profiles[u])
             /\ \A note \in Notes :
                   reject_profile(u, log_id, note) =>
                      Draft(profiles'[u]) = Shadow(profiles[u])]_vars

\* The text an automated pass of the profile would have evaluated had its
\* draft fields been the shadow fields of row
ShadowText(row) ==
    <<Str(row.display_full_name), Str(row.display_bio), Str(row.display_username)>>

\* C21: in every state, the non-empty shadow fields of a profile are the
\* text of a ledger entry of that same profile whose outcome is approved:
\* an approval publishes neither text written after the entry was created
\* nor the draft of a profile the entry does not refer to.
C21_ShadowWasApproved ==
    \A u \in Users :
        Shadow(profiles[u]) # <<None, None, None>> =>
            \E i \in EntriesOf(u) :
                /\ moderation_logs[i].status = "approved"
                /\ moderation_logs[i].content_text = ShadowText(profiles[u])

\* C22: when the ledger write or the status update of the pass of a profile
\* update fails, the content change of that request is rolled back: the row
\* is again as the request found it.
C22_FailureRollsBack ==
    [][\A p \in BagToSet(passes) :
          moderate_profile_fails(p) => profiles'[p.user_id] = p.before]_vars

\* A pass of profile u has been started and has not ended
PassUnderWay(u) == \E p \in BagToSet(passes) : p.user_id = u

\* C23: every pass started by a sensitive update concludes: whenever a pass
\* of a profile is under way, the moderation_status of the profile eventually
\* is approved, flagged or rejected.
C23_PassConcludes ==
    \A u \in Editors :
        PassUnderWay(u) ~> (profiles[u].moderation_status \in {"approved", "flagged", "rejected"})

\* C24: the moderation_status of a profile that is not pending becomes
\* pending only by an update of the owner that carries a moderation-sensitive
\* field; no pass, review, approve, reject or revert sets it to pending.
C24_PendingOnlyByEdit ==
    [][\A u \in Users :
          (/\ profiles[u].moderation_status # "pending"
           /\ profiles'[u].moderation_status = "pending") =>
              \E upd \in UpdateInputs :
                 needs_review(upd) /\ update_my_profile(u, upd)]_vars

\* The profile of u1 was approved and published, and is pending again
C24_Witness ==
    /\ profiles["u1"].display_bio # None
    /\ profiles["u1"].moderation_status = "pending"
    /\ PassUnderWay("u1")

\* C26: the shadow fields of a profile change only in the commit of
\* approve_profile that copies the draft fields to them: an owner update, an
\* owner revert, an automated pass and a rejection leave them as they were.
C26_ShadowOnlyByApproval ==
    [][\A u \in Users :
          Shadow(profiles'[u]) # Shadow(profiles[u]) =>
             \E r \in BagToSet(reviews) :
                /\ r.kind = "approved" /\ r.user_id = u
                /\ approve_profile_copy(r)]_vars

\* An approval published the draft of u2; u1, edited and reverted or
\* rejected meanwhile, has its shadow fields untouched.
C26_Witness ==
    /\ Shadow(profiles["u2"]) = Draft(profiles["u2"])
    /\ profiles["u2"].display_username = "bob"
    /\ profiles["u1"].moderation_status \in {"approved", "rejected"}
    /\ Shadow(profiles["u1"]) = <<None, None, None>>

\* entry is what a manual review makes of old: the same entry with a status
\* that is a decision and reviewed_by, reviewed_at set.
ReviewedFrom(old, entry) ==
    /\ entry.status \in Decisions
    /\ entry.reviewed_at
    /\ entry.reviewed_by # None
    /\ entry = [old EXCEPT !.status = entry.status,
                           !.reviewed_by = entry.reviewed_by,
                           !.reviewed_at = TRUE,
                           !.review_note = entry.review_note]

\* C27: a manual review updates the reviewed entry in place.  In every step
\* no entry is deleted; a step that changes a stored entry adds none, changes
\* no other entry and leaves the changed one reviewed, with a decision as its
\* status; an entry that is added has reviewed_by and reviewed_at unset; and
\* POST /admin/review leaves the entry with its decision, reviewer and note.
C27_ReviewInPlace ==
    [][/\ Len(moderation_logs') >= Len(moderation_logs)
       /\ \A i \in 1..Len(moderation_logs) :
             moderation_logs'[i] # moderation_logs[i] =>
                /\ Len(moderation_logs') = Len(moderation_logs)
                /\ \A j \in 1..Len(moderation_logs) :
                      j # i => moderation_logs'[j] = moderation_logs[j]
                /\ ReviewedFrom(moderation_logs[i], moderation_logs'[i])
       /\ \A i \in (Len(moderation_logs) + 1)..Len(moderation_logs') :
             /\ ~moderation_logs'[i].reviewed_at
             /\ moderation_logs'[i].reviewed_by = None
       /\ \A caller \in Editors \cup {Admin}, log_id \in 1..Len(moderation_logs),
             decision \in Decisions :
             manual_review(caller, log_id, decision, None) =>
                /\ moderation_logs'[log_id].status = decision
                /\ moderation_logs'[log_id].reviewed_by = caller
                /\ moderation_logs'[log_id].reviewed_at
                /\ moderation_logs'[log_id].review_note = None]_vars

\* Of two stored entries the older one was reviewed, the newer one is as its
\* pass wrote it.
C27_Witness ==
    /\ Len(moderation_logs) = 2
    /\ moderation_logs[1].reviewed_at /\ moderation_logs[1].reviewed_by = Admin
    /\ moderation_logs[1].status = "rejected"
    /\ ~moderation_logs[2].reviewed_at /\ moderation_logs[2].reviewed_by = None

Tables == <<moderation_logs, profiles, items>>

\* C25: a call with a content_type other than item or profile, or with a
\* decision other than approved or rejected, is rejected before any effect:
\* the ledger and the content tables are after the call as before it.
C25_InvalidCallsChangeNothing ==
    [][/\ \A content_type \in ContentTypes \ ValidTables, content_id \in ContentIds,
             api \in PassOutcomes :
             ModerationService_moderate_content(content_type, content_id, "u1", api) =>
                UNCHANGED Tables
       /\ \A content_type \in ContentTypes \ ValidTables, content_id \in ContentIds,
             st \in {"approved", "flagged"}, log_id \in LogIds :
             ModerationService_update_content_moderation_status(
                 content_type, content_id, st, log_id) =>
                UNCHANGED Tables
       /\ \A log_id \in LogIds, decision \in AnyDecisions \ Decisions :
             (\/ ModerationService_manual_review(log_id, Admin, decision, None)
              \/ manual_review(Admin, log_id, decision, None)) =>
                UNCHANGED Tables]_vars

\* the entries a filter selects, and how many of them are newer than entry i
Matching(st, content_type) ==
    {i \in 1..Len(moderation_logs) :
        /\ moderation_logs[i].status = st
        /\ content_type # None => moderation_logs[i].content_type = content_type}

NewerThan(i, st, content_type) ==
    Cardinality({j \in Matching(st, content_type) : j > i})

\* the enrichment fields of a queue row are the ones of a lookup that failed
DefaultEnrichment(row) ==
    /\ row.item_title = Missing /\ row.item_description = Missing
    /\ row.profile_full_name = Missing /\ row.profile_username = Missing
    /\ row.profile_bio = Missing
    /\ row.item_images = IF row.content_type = "item" THEN EmptyList ELSE Missing
    /\ row.profile_avatar = IF row.content_type = "profile" THEN None ELSE Missing

\* the enrichment fields of a queue row are the ones of its item or profile
FullEnrichment(row) ==
    /\ row.content_type = "item" /\ int(row.content_id) \in 1..Len(items) =>
          /\ row.item_title = items[int(row.content_id)].title
          /\ row.item_description = items[int(row.content_id)].description
    /\ row.content_type = "profile" /\ row.user_id \in DOMAIN profiles =>
          /\ row.profile_username = profiles[row.user_id].username
          /\ row.profile_full_name = profiles[row.user_id].full_name
          /\ row.profile_bio = profiles[row.user_id].bio

\* C28: get_pending_review returns the entries of the status filter (and of the
\* content-type filter when one is given), newest first, cut to limit and
\* offset; an entry whose lookup fails is in the result with the default
\* enrichment fields, and the other entries are returned with theirs.
C28_QueueSurvivesFailedLookup ==
    [][LET q == review_queue'.call
           rows == review_queue'.rows
           page == {i \in Matching(q.status, q.content_type) :
                       /\ NewerThan(i, q.status, q.content_type) >= q.offset
                       /\ NewerThan(i, q.status, q.content_type) < q.offset + q.limit}
       IN ModerationService_get_pending_review(
              q.status, q.limit, q.offset, q.content_type, q.failing) =>
             /\ Len(rows) = Cardinality(page)
             /\ \A k \in 1..Len(rows) :
                   /\ rows[k].id \in page
                   /\ NewerThan(rows[k].id, q.status, q.content_type) = q.offset + k - 1
                   /\ rows[k].status = q.status
                   /\ rows[k].id \in q.failing => DefaultEnrichment(rows[k])
                   /\ rows[k].id \notin q.failing => FullEnrichment(rows[k])]_vars

\* a queue of two entries, the newer first: the lookup of one failed, the other
\* one carries the fields of its profile
C28_Witness ==
    /\ Len(review_queue.rows) = 2
    /\ review_queue.rows[1].id > review_queue.rows[2].id
    /\ Cardinality(review_queue.call.failing) = 1
    /\ \E k \in 1..2 : DefaultEnrichment(review_queue.rows[k])
    /\ \E k \in 1..2 : review_queue.rows[k].profile_username # Missing

\* C29: whatever a logged-in user's views of an item and of other items, the
\* item's view_count was incremented once by that user at most, and the pair
\* has one view-history row at most.  (All views under SpecViews are the
\* views of one user.)
C29_ViewCountedOnce ==
    \A i \in OnSale :
        /\ view_count[i] <= 1
        /\ Cardinality({k \in 1..Len(view_history) :
                           view_history[k] = ViewRow("u1", i)}) <= 1

\* C30: one favorite row per pair at most, and the is_favorited a
\* toggle_favorite call reports is whether the pair has a row right after the
\* call's commit.
C30_ToggleReportsRow ==
    /\ [](\A user_id \in Users : Cardinality(FavoriteOf(user_id, 1)) <= 1)
    /\ [][\A t \in BagToSet(toggles) :
             toggle_favorite_commit(t) =>
                (is_favorited(t) <=>
                    \E r \in favorites' : r.user_id = t.user_id /\ r.item_id = t.item_id)]_vars

----------------------------------------------------------------------------
(* The resolver and the adapter on their own: determine_status applied to  *)
(* any score report, moderate_text applied to any outcome of the API call. *)

InitPure ==
    /\ openai_client \in {None, Client}
    /\ moderation_result \in Reports
    /\ status = NotResolved
    /\ api_call = NoCall
    /\ InitTables

Classify ==
    /\ \E api \in ApiOutcomes :
          /\ api_call' = api
          /\ moderation_result' = moderate_text(openai_client, api)
    /\ status' = NotResolved
    /\ UNCHANGED <<openai_client, dbVars>>

Resolve ==
    /\ status = NotResolved
    /\ status' = determine_status(moderation_result)
    /\ UNCHANGED <<openai_client, moderation_result, api_call, dbVars>>

NextPure == Classify \/ Resolve

SpecPure == InitPure /\ [][NextPure]_vars

----------------------------------------------------------------------------
(* Claims about the resolver and the adapter, under SpecPure *)

Resolved == status # NotResolved
ErrorPresent == Truthy(Get(moderation_result, "error", None))
MaxScore == Get(moderation_result, "max_score", DefaultMaxScore)
Flagged == Get(moderation_result, "flagged", FALSE)

\* C1: a report whose error field is present and non-empty resolves to
\* flagged, whatever its max_score and flagged are.
C1_ErrorResolvesFlagged ==
    (Resolved /\ ErrorPresent) => status = "flagged"

C1_Witness ==
    /\ Resolved /\ ErrorPresent
    /\ MaxScore > RejectThreshold /\ Flagged
    /\ status = "flagged"

C3_Bands ==
    (Resolved /\ ~ErrorPresent /\ ~Flagged) =>
        /\ status = "flagged" <=> (FlagThreshold < MaxScore /\ MaxScore <= RejectThreshold)
        /\ status = "approved" <=> MaxScore <= FlagThreshold

C3_Witness ==
    /\ Resolved /\ ~ErrorPresent /\ ~Flagged
    /\ MaxScore = RejectThreshold
    /\ status = "flagged"

\* The sentinel categories of a failed classification: "unavailable" and
\* "error" in the specification, spelled "no_api" and "api_error" in the code.
SentinelCategories == {"unavailable", "error", "no_api", "api_error"}

\* C4: when the backend is not configured or its call raises, the report
\* moderate_text returns has flagged = true, max_score = 0.5, a populated
\* (non-empty) error field and a sentinel category for the failure.
C4_FailClosedReport ==
    (api_call # NoCall /\ (openai_client = None \/ api_call.kind = "raise")) =>
        /\ moderation_result.flagged = TRUE
        /\ moderation_result.max_score = FailScore
        /\ Truthy(moderation_result.error)
        /\ \E c \in SentinelCategories :
              c \in DOMAIN moderation_result.categories

====
